---- MODULE Spec2Model ----
(***************************************************************************)
(* Model of the text-presence triage of shitpost-gan:                      *)
(*   src/data/filter_no_text.py  classify_text_type and the three-way     *)
(*                               driver main()                             *)
(*   src/filter_no_text.py       has_text_easyocr and the two-way driver   *)
(*                                                                         *)
(* Numbers.  Coordinates, image sizes and areas are integers.  A ratio of  *)
(* the code (area / img_area, width / w) is kept as its numerator and its  *)
(* denominator, and a comparison with a decimal threshold t = T/100 is     *)
(* made by cross-multiplication: num/den >= T/100  <=>  100*num >= T*den   *)
(* (den > 0).  IEEE division is correctly rounded and monotone, and the    *)
(* literal 0.10 is the double nearest to 1/10, so for the integers of the  *)
(* model the float comparison of the code has the same outcome.            *)
(***************************************************************************)
EXTENDS Integers, Sequences, FiniteSets, TLC

VARIABLES
    img_w,          \* w: arr.shape[1]
    img_h,          \* h: arr.shape[0]
    results,        \* reader.readtext(...): list of (bbox, text, conf)
    text_type,      \* value returned by classify_text_type
    cpc,            \* position of the classification call
    has_text,       \* value returned by has_text_easyocr
    policy,         \* which script runs: the three-way or the two-way driver
    all_paths,      \* candidate images found under SRC_DIR, in rglob order
    n_done,         \* number of paths the for loop has consumed
    num_kept,
    num_rejected,
    DST_DIR,        \* kept directory: file name -> content
    REJECTED_DIR,   \* rejected directory: file name -> content
    pc,             \* position of main: "loop", "done", "aborted"
    run,            \* number of times main has been started
    io_errors,      \* history: iterations that took the except branch
    content_rejected, \* history: iterations rejected on the verdict
    prev_run        \* history: the counts the previous run ended with and
                    \* the destination directories as this run found them

cvars == <<img_w, img_h, results, text_type, cpc, has_text>>
dvars == <<policy, all_paths, n_done, num_kept, num_rejected, DST_DIR,
           REJECTED_DIR, pc, run, io_errors, content_rejected, prev_run>>
vars  == <<cvars, dvars>>

(***************************************************************************)
(* Bounds of the model.                                                    *)
(***************************************************************************)
MaxDet == 3         \* longest list of detections the OCR provider returns
MaxFiles == 3       \* most candidate images under SRC_DIR
MaxRuns == 2        \* most starts of main over the same directories

(***************************************************************************)
(* Configuration block of src/data/filter_no_text.py, ratios in hundredths *)
(***************************************************************************)
MIN_TOTAL_CHARS == 3
MAX_OVERLAY_TOTAL_AREA_RATIO == 8
MAX_OVERLAY_REGION_AREA_RATIO == 4
MEME_MIN_REGION_AREA_RATIO == 10
MEME_MIN_WIDTH_RATIO == 70
MEME_MIN_TOTAL_AREA_RATIO == 20
MEME_MIN_TOTAL_CHARS == 25

\* Configuration block of src/filter_no_text.py (its own MIN_TOTAL_CHARS)
MIN_TOTAL_CHARS_TWO_WAY == 3

(***************************************************************************)
(* Inputs: image sizes, quadrilaterals and texts the OCR provider may      *)
(* report.  A quadrilateral is a sequence of four <<x, y>> points.         *)
(***************************************************************************)
ImageSizes == {<<10, 10>>, <<20, 10>>, <<10, 20>>}

QuadDiamond  == << <<1, 0>>, <<2, 1>>, <<1, 2>>, <<0, 1>> >>   \* rotated, bbox 2x2
QuadDot      == << <<4, 4>>, <<5, 4>>, <<5, 5>>, <<4, 5>> >>   \* bbox 1x1
QuadBlock    == << <<0, 5>>, <<2, 5>>, <<2, 10>>, <<0, 10>> >> \* bbox 2x5
QuadBanner   == << <<8, 1>>, <<1, 1>>, <<1, 2>>, <<8, 2>> >>   \* bbox 7x1
QuadFull     == << <<0, 0>>, <<10, 0>>, <<10, 10>>, <<0, 10>> >> \* bbox 10x10
QuadLine     == << <<1, 3>>, <<4, 3>>, <<6, 3>>, <<9, 3>> >>   \* collinear, 8x0

Quads == {QuadDiamond, QuadDot, QuadBlock, QuadBanner, QuadFull, QuadLine}

Texts == {"I", "LOL", "WHEN YOU SEE IT AGAIN."}

Detections == [bbox : Quads, text : Texts]

\* File names and file contents of the source tree.  Files in different
\* subdirectories may share a name; a content stands for the bytes of a file.
Names == {"a.jpg", "b.png"}
Contents == {"blank", "stamp", "caption", "corrupt", "truncated"}
SourceFiles == [name : Names, content : Contents]
Absent == "absent"
EmptyDir == [n \in Names |-> Absent]

\* prev_run of a first run: no earlier counts, fresh destination directories
NoPrevRun == [kept |-> 0, rejected |-> 0, DST |-> EmptyDir, REJ |-> EmptyDir]

ResultLists == UNION {[1..n -> Detections] : n \in 0..MaxDet}

(***************************************************************************)
(* classify_text_type, src/data/filter_no_text.py lines 35-105             *)
(***************************************************************************)
SetMin(S) == CHOOSE m \in S : \A x \in S : m <= x
SetMax(S) == CHOOSE m \in S : \A x \in S : m >= x
Max2(a, b) == IF a >= b THEN a ELSE b

\* xs = [p[0] for p in bbox]; ys = [p[1] for p in bbox]
xs(bbox) == {bbox[i][1] : i \in DOMAIN bbox}
ys(bbox) == {bbox[i][2] : i \in DOMAIN bbox}

\* Variant of bbox_width that takes the points to come in the order top-left,
\* top-right, bottom-right, bottom-left instead of using min and max
bbox_width_ordered(bbox) == bbox[2][1] - bbox[1][1]

\* width = max_x - min_x; height = max_y - min_y; area = width * height
bbox_width(bbox)  == SetMax(xs(bbox)) - SetMin(xs(bbox))
bbox_height(bbox) == SetMax(ys(bbox)) - SetMin(ys(bbox))

\* total_chars = sum(len(text) for (_, text, _) in results)
RECURSIVE total_chars(_)
total_chars(res) ==
    IF res = <<>> THEN 0 ELSE Len(Head(res).text) + total_chars(Tail(res))

\* num/den >= t/100 and num/den <= t/100 for den > 0
RatioGe(num, den, t) == 100 * num >= t * den
RatioLe(num, den, t) == 100 * num <= t * den

\* State of the loop over results (lines 59-81).  max_region_area is the
\* numerator of max_region_area_ratio over img_area, max_region_width the
\* numerator of max_region_width_ratio over w; err is set when a division
\* by zero is raised.
LoopInit == [total_text_area |-> 0, max_region_area |-> 0,
             max_region_width |-> 0, err |-> FALSE]

\* Variant of LoopBody without the "if area <= 0: continue" of lines 73-74
LoopBody_no_skip(acc, det, w, h) ==
    LET width  == bbox_width(det.bbox)
        height == bbox_height(det.bbox)
        area   == width * height
    IN  IF acc.err THEN acc
        ELSE IF w * h = 0 THEN [acc EXCEPT !.err = TRUE]
        ELSE [total_text_area  |-> acc.total_text_area + area,
              max_region_area  |-> Max2(acc.max_region_area, area),
              max_region_width |-> Max2(acc.max_region_width, width),
              err |-> FALSE]

\* One iteration of the loop body (lines 63-81)
LoopBody(acc, det, w, h) ==
    LET width  == bbox_width(det.bbox)
        height == bbox_height(det.bbox)
        area   == width * height
    IN  IF acc.err THEN acc
        ELSE IF area <= 0 THEN acc                             \* continue
        ELSE IF w * h = 0 THEN [acc EXCEPT !.err = TRUE]       \* area / img_area
        ELSE [total_text_area  |-> acc.total_text_area + area,
              max_region_area  |-> Max2(acc.max_region_area, area),
              max_region_width |-> Max2(acc.max_region_width, width),
              err |-> FALSE]

RECURSIVE RegionLoop(_, _, _, _)
RegionLoop(acc, res, w, h) ==
    IF res = <<>> THEN acc
    ELSE RegionLoop(LoopBody(acc, Head(res), w, h), Tail(res), w, h)

\* Variant of MemeTest that forgets the character-count trigger of line 91
MemeTest_no_chars(m, chars, w, h) ==
    \/ RatioGe(m.max_region_area, w * h, MEME_MIN_REGION_AREA_RATIO)
    \/ RatioGe(m.max_region_width, w, MEME_MIN_WIDTH_RATIO)
    \/ RatioGe(m.total_text_area, w * h, MEME_MIN_TOTAL_AREA_RATIO)

\* lines 85-93
MemeTest(m, chars, w, h) ==
    \/ RatioGe(m.max_region_area, w * h, MEME_MIN_REGION_AREA_RATIO)
    \/ RatioGe(m.max_region_width, w, MEME_MIN_WIDTH_RATIO)
    \/ RatioGe(m.total_text_area, w * h, MEME_MIN_TOTAL_AREA_RATIO)
    \/ chars >= MEME_MIN_TOTAL_CHARS

\* Variant of OverlayTest with "or" in place of the "and" of line 100
OverlayTest_any(m, w, h) ==
    \/ RatioLe(m.total_text_area, w * h, MAX_OVERLAY_TOTAL_AREA_RATIO)
    \/ RatioLe(m.max_region_area, w * h, MAX_OVERLAY_REGION_AREA_RATIO)

\* lines 98-102
OverlayTest(m, w, h) ==
    /\ RatioLe(m.total_text_area, w * h, MAX_OVERLAY_TOTAL_AREA_RATIO)
    \* max_region_area_ratio <= MAX_OVERLAY_REGION_AREA_RATIO
    /\ RatioLe(m.max_region_area, w * h, MAX_OVERLAY_REGION_AREA_RATIO)

\* Variant of BelowCharFloor with "<=" in place of the "<" of line 56
BelowCharFloor_le(chars) == chars <= MIN_TOTAL_CHARS

\* line 56: total_chars < MIN_TOTAL_CHARS
BelowCharFloor(chars) == chars < MIN_TOTAL_CHARS

\* Variant of classify_text_type that tests overlay before meme
classify_overlay_first(res, w, h) ==
    IF res = <<>> THEN "none"
    ELSE IF BelowCharFloor(total_chars(res)) THEN "none"
    ELSE LET m == RegionLoop(LoopInit, res, w, h)
         IN  IF m.err \/ w * h = 0 THEN "ZeroDivisionError"
             ELSE IF OverlayTest(m, w, h) THEN "overlay"
             ELSE "meme"

\* Variant of classify_text_type that applies the character floor after
\* the meme test instead of before the geometry
classify_geometry_first(res, w, h) ==
    IF res = <<>> THEN "none"
    ELSE LET m == RegionLoop(LoopInit, res, w, h)
         IN  IF m.err \/ w * h = 0 THEN "ZeroDivisionError"
             ELSE IF MemeTest(m, total_chars(res), w, h) THEN "meme"
             ELSE IF BelowCharFloor(total_chars(res)) THEN "none"
             ELSE IF OverlayTest(m, w, h) THEN "overlay"
             ELSE "meme"

classify_text_type(res, w, h) ==
    IF res = <<>> THEN "none"
    ELSE IF BelowCharFloor(total_chars(res)) THEN "none"
    ELSE LET m == RegionLoop(LoopInit, res, w, h)
         IN  IF m.err \/ w * h = 0 THEN "ZeroDivisionError"    \* line 76 / 83
             ELSE IF MemeTest(m, total_chars(res), w, h) THEN "meme"
             ELSE IF OverlayTest(m, w, h) THEN "overlay"
             ELSE "meme"

(***************************************************************************)
(* The classification call as a state machine: the image is decoded, the   *)
(* OCR provider is read (line 50), the verdict is computed (lines 52-105). *)
(***************************************************************************)
InitClassify ==
    /\ \E sz \in ImageSizes : img_w = sz[1] /\ img_h = sz[2]
    /\ results = <<>>
    /\ text_type = "pending"
    /\ cpc = "readtext"
    /\ policy = "none"
    /\ all_paths = <<>>
    /\ n_done = 0
    /\ num_kept = 0
    /\ num_rejected = 0
    /\ DST_DIR = EmptyDir
    /\ REJECTED_DIR = EmptyDir
    /\ pc = "idle"
    /\ run = 0
    /\ io_errors = 0
    /\ content_rejected = 0
    /\ prev_run = NoPrevRun
    /\ has_text = "pending"

ReadText ==
    /\ cpc = "readtext"
    /\ \E res \in ResultLists : results' = res
    /\ cpc' = "classify"
    /\ UNCHANGED <<img_w, img_h, text_type, has_text, dvars>>

Classify ==
    /\ cpc = "classify"
    /\ text_type' = classify_text_type(results, img_w, img_h)
    /\ cpc' = "returned"
    /\ UNCHANGED <<img_w, img_h, results, has_text, dvars>>

NextClassify == ReadText \/ Classify

SpecClassify == InitClassify /\ [][NextClassify]_vars

\* The same call on an image with a zero dimension (h, w = 0 at line 46):
\* nothing before line 47 rejects it.
InvalidSizes == {<<0, 10>>, <<10, 0>>, <<0, 0>>}

InitClassifyInvalid ==
    /\ \E sz \in InvalidSizes : img_w = sz[1] /\ img_h = sz[2]
    /\ results = <<>>
    /\ text_type = "pending"
    /\ cpc = "readtext"
    /\ policy = "none"
    /\ all_paths = <<>>
    /\ n_done = 0
    /\ num_kept = 0
    /\ num_rejected = 0
    /\ DST_DIR = EmptyDir
    /\ REJECTED_DIR = EmptyDir
    /\ pc = "idle"
    /\ run = 0
    /\ io_errors = 0
    /\ content_rejected = 0
    /\ prev_run = NoPrevRun
    /\ has_text = "pending"

SpecClassifyInvalid == InitClassifyInvalid /\ [][NextClassify]_vars

\* The same call on the detection lists used to compare the orders of a
\* list and of the points of its regions: a rotated region, one whose
\* points do not start at the top-left corner and a collinear one.
OrderSizes == {<<10, 10>>, <<10, 20>>}
OrderDetections == [bbox : {QuadDiamond, QuadBanner, QuadLine}, text : Texts]
OrderLists == UNION {[1..n -> OrderDetections] : n \in 0..MaxDet}

InitOrder ==
    /\ \E sz \in OrderSizes : img_w = sz[1] /\ img_h = sz[2]
    /\ results = <<>>
    /\ text_type = "pending"
    /\ cpc = "readtext_order"
    /\ policy = "none"
    /\ all_paths = <<>>
    /\ n_done = 0
    /\ num_kept = 0
    /\ num_rejected = 0
    /\ DST_DIR = EmptyDir
    /\ REJECTED_DIR = EmptyDir
    /\ pc = "idle"
    /\ run = 0
    /\ io_errors = 0
    /\ content_rejected = 0
    /\ prev_run = NoPrevRun
    /\ has_text = "pending"

ReadTextOrder ==
    /\ cpc = "readtext_order"
    /\ \E res \in OrderLists : results' = res
    /\ cpc' = "classify"
    /\ UNCHANGED <<img_w, img_h, text_type, has_text, dvars>>

NextOrder == ReadTextOrder \/ Classify

SpecOrder == InitOrder /\ [][NextOrder]_vars

(***************************************************************************)
(* The files of the source tree.  Image.open (line 129) reads the header   *)
(* only; the pixels are decoded by ImageOps.exif_transpose(img).convert    *)
(* inside classify_text_type (line 44) and has_text_easyocr (line 25).     *)
(***************************************************************************)
\* Image.open(img_path) returns
Opens(c) == c # "corrupt"

\* ImageOps.exif_transpose(img).convert("RGB") returns
Decodes(c) == c \notin {"corrupt", "truncated"}

\* arr.shape of the decoded image, as <<w, h>>
shape(c) == <<10, 10>>

\* reader.readtext(arr, detail=1, paragraph=False), the same for the same pixels
readtext(c) ==
    CASE c = "blank"   -> <<>>
      [] c = "stamp"   -> << [bbox |-> QuadDiamond, text |-> "LOL", conf |-> 90] >>
      [] c = "caption" -> << [bbox |-> QuadBanner, text |-> "WHEN YOU SEE IT AGAIN.",
                              conf |-> 90],
                             [bbox |-> QuadDot, text |-> "LOL", conf |-> 10] >>
      [] OTHER         -> <<>>

\* Variant of has_text_easyocr that counts only the characters of the
\* detections whose confidence is at least 0.5
has_text_confident(res) ==
    total_chars(SelectSeq(res, LAMBDA d : d.conf >= 50)) >= MIN_TOTAL_CHARS_TWO_WAY

\* has_text_easyocr, src/filter_no_text.py lines 23-31
has_text_easyocr(res) == total_chars(res) >= MIN_TOTAL_CHARS_TWO_WAY

\* Variant of copy_if_absent that copies without asking out_path.exists()
copy_always(dir, name, content) == [dir EXCEPT ![name] = content]

\* if not out_path.exists(): shutil.copy2(img_path, out_path)
copy_if_absent(dir, name, content) ==
    IF dir[name] # Absent THEN dir ELSE [dir EXCEPT ![name] = content]

(***************************************************************************)
(* main: the state after lines 109-124 (or 35-49 of the two-way script).   *)
(***************************************************************************)
Init ==
    /\ policy \in {"three_way", "two_way"}
    /\ all_paths \in UNION {[1..n -> SourceFiles] : n \in 0..MaxFiles}
    /\ n_done = 0
    /\ num_kept = 0
    /\ num_rejected = 0
    /\ DST_DIR = EmptyDir
    /\ REJECTED_DIR = EmptyDir
    /\ pc = "loop"
    /\ run = 1
    /\ io_errors = 0
    /\ content_rejected = 0
    /\ prev_run = NoPrevRun
    /\ has_text = "unset"
    /\ img_w = 0
    /\ img_h = 0
    /\ results = <<>>
    /\ text_type = "unset"
    /\ cpc = "idle"

InLoop(p) == policy = p /\ pc = "loop" /\ n_done < Len(all_paths)
img_path == all_paths[n_done + 1]

(***************************************************************************)
(* Three-way driver, src/data/filter_no_text.py lines 126-156              *)
(***************************************************************************)
\* Variant of main_open_error that forgets to count the rejection
main_open_error_uncounted ==
    /\ InLoop("three_way")
    /\ ~Opens(img_path.content)
    /\ REJECTED_DIR' = copy_if_absent(REJECTED_DIR, img_path.name, img_path.content)
    /\ n_done' = n_done + 1
    /\ io_errors' = io_errors + 1
    /\ UNCHANGED <<cvars, policy, all_paths, num_kept, num_rejected, DST_DIR,
                   pc, run, prev_run, content_rejected>>

\* lines 128-137: Image.open raises
main_open_error ==
    /\ InLoop("three_way")
    /\ ~Opens(img_path.content)
    /\ REJECTED_DIR' = copy_if_absent(REJECTED_DIR, img_path.name, img_path.content)
    /\ num_rejected' = num_rejected + 1
    /\ n_done' = n_done + 1
    /\ io_errors' = io_errors + 1
    /\ UNCHANGED <<cvars, policy, all_paths, num_kept, DST_DIR, pc, run, prev_run,
                   content_rejected>>

\* line 139: classify_text_type raises (the decode of line 44, or a
\* division by zero); no handler encloses the call, so main ends here
main_decode_error ==
    /\ InLoop("three_way")
    /\ Opens(img_path.content)
    /\ \/ ~Decodes(img_path.content)
       \/ classify_text_type(readtext(img_path.content),
              shape(img_path.content)[1], shape(img_path.content)[2])
            = "ZeroDivisionError"
    /\ pc' = "aborted"
    /\ UNCHANGED <<cvars, policy, all_paths, n_done, num_kept, num_rejected, DST_DIR,
                   REJECTED_DIR, run, prev_run, io_errors, content_rejected>>

\* Variant of main_route that keeps only the verdict "none"
main_route_none_only ==
    /\ InLoop("three_way")
    /\ Opens(img_path.content) /\ Decodes(img_path.content)
    /\ LET c == img_path.content
           v == classify_text_type(readtext(c), shape(c)[1], shape(c)[2])
       IN  /\ v # "ZeroDivisionError"
           /\ img_w' = shape(c)[1] /\ img_h' = shape(c)[2]
           /\ results' = readtext(c)
           /\ text_type' = v
           /\ IF v = "none"
              THEN /\ DST_DIR' = copy_if_absent(DST_DIR, img_path.name, c)
                   /\ num_kept' = num_kept + 1
                   /\ UNCHANGED <<REJECTED_DIR, num_rejected, content_rejected>>
              ELSE /\ REJECTED_DIR' = copy_if_absent(REJECTED_DIR, img_path.name, c)
                   /\ num_rejected' = num_rejected + 1
                   /\ content_rejected' = content_rejected + 1
                   /\ UNCHANGED <<DST_DIR, num_kept>>
    /\ n_done' = n_done + 1
    /\ UNCHANGED <<cpc, has_text, policy, all_paths, pc, run, prev_run, io_errors>>

\* Variant of main_route that counts an image only when it copies it
main_route_count_on_copy ==
    /\ InLoop("three_way")
    /\ Opens(img_path.content) /\ Decodes(img_path.content)
    /\ LET c == img_path.content
           v == classify_text_type(readtext(c), shape(c)[1], shape(c)[2])
       IN  /\ v # "ZeroDivisionError"
           /\ img_w' = shape(c)[1] /\ img_h' = shape(c)[2]
           /\ results' = readtext(c)
           /\ text_type' = v
           /\ IF v \in {"none", "overlay"}
              THEN /\ DST_DIR' = copy_if_absent(DST_DIR, img_path.name, c)
                   /\ num_kept' = IF DST_DIR[img_path.name] = Absent
                                  THEN num_kept + 1 ELSE num_kept
                   /\ UNCHANGED <<REJECTED_DIR, num_rejected, content_rejected>>
              ELSE /\ REJECTED_DIR' = copy_if_absent(REJECTED_DIR, img_path.name, c)
                   /\ num_rejected' = IF REJECTED_DIR[img_path.name] = Absent
                                      THEN num_rejected + 1 ELSE num_rejected
                   /\ content_rejected' = content_rejected + 1
                   /\ UNCHANGED <<DST_DIR, num_kept>>
    /\ n_done' = n_done + 1
    /\ UNCHANGED <<cpc, has_text, policy, all_paths, pc, run, prev_run, io_errors>>

\* lines 139-152: the image is classified and routed on the verdict
main_route ==
    /\ InLoop("three_way")
    /\ Opens(img_path.content) /\ Decodes(img_path.content)
    /\ LET c == img_path.content
           v == classify_text_type(readtext(c), shape(c)[1], shape(c)[2])
       IN  /\ v # "ZeroDivisionError"
           /\ img_w' = shape(c)[1] /\ img_h' = shape(c)[2]
           /\ results' = readtext(c)
           /\ text_type' = v
           /\ IF v \in {"none", "overlay"}
              THEN /\ DST_DIR' = copy_if_absent(DST_DIR, img_path.name, c)
                   /\ num_kept' = num_kept + 1
                   /\ UNCHANGED <<REJECTED_DIR, num_rejected, content_rejected>>
              ELSE /\ REJECTED_DIR' = copy_if_absent(REJECTED_DIR, img_path.name, c)
                   /\ num_rejected' = num_rejected + 1
                   /\ content_rejected' = content_rejected + 1
                   /\ UNCHANGED <<DST_DIR, num_kept>>
    /\ n_done' = n_done + 1
    /\ UNCHANGED <<cpc, has_text, policy, all_paths, pc, run, prev_run, io_errors>>

(***************************************************************************)
(* Two-way driver, src/filter_no_text.py lines 51-72                       *)
(***************************************************************************)
\* lines 53-58: Image.open raises
main2_open_error ==
    /\ InLoop("two_way")
    /\ ~Opens(img_path.content)
    /\ num_rejected' = num_rejected + 1
    /\ n_done' = n_done + 1
    /\ io_errors' = io_errors + 1
    /\ UNCHANGED <<cvars, policy, all_paths, num_kept, DST_DIR, REJECTED_DIR,
                   pc, run, prev_run, content_rejected>>

\* line 60: has_text_easyocr raises (the decode of line 25)
main2_decode_error ==
    /\ InLoop("two_way")
    /\ Opens(img_path.content) /\ ~Decodes(img_path.content)
    /\ pc' = "aborted"
    /\ UNCHANGED <<cvars, policy, all_paths, n_done, num_kept, num_rejected, DST_DIR,
                   REJECTED_DIR, run, prev_run, io_errors, content_rejected>>

\* lines 60-68
main2_route ==
    /\ InLoop("two_way")
    /\ Opens(img_path.content) /\ Decodes(img_path.content)
    /\ LET c == img_path.content
       IN  /\ results' = readtext(c)
           /\ has_text' = has_text_easyocr(readtext(c))
           /\ IF has_text_easyocr(readtext(c))
              THEN /\ num_rejected' = num_rejected + 1
                   /\ content_rejected' = content_rejected + 1
                   /\ UNCHANGED <<DST_DIR, num_kept>>
              ELSE /\ DST_DIR' = copy_if_absent(DST_DIR, img_path.name, c)
                   /\ num_kept' = num_kept + 1
                   /\ UNCHANGED <<num_rejected, content_rejected>>
    /\ n_done' = n_done + 1
    /\ UNCHANGED <<img_w, img_h, text_type, cpc, policy, all_paths,
                   REJECTED_DIR, pc, run, prev_run, io_errors>>

\* the for loop is exhausted and the summary is printed (lines 154-156;
\* lines 70-72 of the two-way script)
main_done ==
    /\ pc = "loop"
    /\ n_done = Len(all_paths)
    /\ pc' = "done"
    /\ UNCHANGED <<cvars, policy, all_paths, n_done, num_kept, num_rejected, DST_DIR,
                   REJECTED_DIR, run, prev_run, io_errors, content_rejected>>

\* the script is started again over the same directories: mkdir with
\* exist_ok keeps the destination files, the counters start at 0
\* (lines 109-124)
main_again ==
    /\ pc \in {"done", "aborted"}
    /\ run < MaxRuns
    /\ run' = run + 1
    /\ pc' = "loop"
    /\ n_done' = 0
    /\ num_kept' = 0
    /\ num_rejected' = 0
    /\ io_errors' = 0
    /\ content_rejected' = 0
    /\ UNCHANGED <<cvars, policy, all_paths, DST_DIR, REJECTED_DIR>>
    /\ prev_run' = [kept |-> num_kept, rejected |-> num_rejected,
                    DST |-> DST_DIR, REJ |-> REJECTED_DIR]

Next ==
    \/ main_open_error
    \/ main_decode_error
    \/ main_route
    \/ main2_open_error
    \/ main2_decode_error
    \/ main2_route
    \/ main_done
    \/ main_again

Spec == Init /\ [][Next]_vars

(***************************************************************************)
(* The two-way script, src/filter_no_text.py: the call of has_text_easyocr *)
(* on the detections of any image (lines 23-31), and its driver.  Here a   *)
(* detection carries its confidence, in hundredths.                        *)
(***************************************************************************)
Confidences == {10, 90}
Detections2 == [bbox : {QuadDot, QuadFull, QuadLine}, text : Texts,
                conf : Confidences]
ResultLists2 == UNION {[1..n -> Detections2] : n \in 0..MaxDet}

InitHasText ==
    /\ \E sz \in ImageSizes : img_w = sz[1] /\ img_h = sz[2]
    /\ results = <<>>
    /\ text_type = "unset"
    /\ has_text = "pending"
    /\ cpc = "readtext2"
    /\ policy = "none"
    /\ all_paths = <<>>
    /\ n_done = 0
    /\ num_kept = 0
    /\ num_rejected = 0
    /\ DST_DIR = EmptyDir
    /\ REJECTED_DIR = EmptyDir
    /\ pc = "idle"
    /\ run = 0
    /\ io_errors = 0
    /\ content_rejected = 0
    /\ prev_run = NoPrevRun

\* line 28
ReadText2 ==
    /\ cpc = "readtext2"
    /\ \E res \in ResultLists2 : results' = res
    /\ cpc' = "has_text"
    /\ UNCHANGED <<img_w, img_h, text_type, has_text, dvars>>

\* lines 29-31
HasText ==
    /\ cpc = "has_text"
    /\ has_text' = has_text_easyocr(results)
    /\ cpc' = "returned2"
    /\ UNCHANGED <<img_w, img_h, results, text_type, dvars>>

InitTwoWay == Init /\ policy = "two_way"

NextTwoWay ==
    \/ ReadText2
    \/ HasText
    \/ main2_open_error
    \/ main2_decode_error
    \/ main2_route
    \/ main_done
    \/ main_again

SpecTwoWay == (InitHasText \/ InitTwoWay) /\ [][NextTwoWay]_vars

(***************************************************************************)
(* Property side.  The aggregates of a list of detections, defined by      *)
(* index set rather than by the loop, and the ordered decision list with   *)
(* the thresholds as the documentation states them (hundredths).           *)
(***************************************************************************)
RECURSIVE SumFn(_)
SumFn(f) ==
    IF DOMAIN f = {} THEN 0
    ELSE LET i == CHOOSE j \in DOMAIN f : TRUE
         IN  f[i] + SumFn([j \in DOMAIN f \ {i} |-> f[j]])

RegionArea(res, i)  == bbox_width(res[i].bbox) * bbox_height(res[i].bbox)
RegionWidth(res, i) == bbox_width(res[i].bbox)
Degenerate(res)     == {i \in DOMAIN res : RegionArea(res, i) <= 0}
Regions(res)        == DOMAIN res \ Degenerate(res)

AggChars(res)       == SumFn([i \in DOMAIN res |-> Len(res[i].text)])
AggArea(res, S)     == SumFn([i \in S |-> RegionArea(res, i)])
AggMaxArea(res, S)  == IF S = {} THEN 0 ELSE SetMax({RegionArea(res, i) : i \in S})
AggMaxWidth(res, S) == IF S = {} THEN 0 ELSE SetMax({RegionWidth(res, i) : i \in S})

\* a meme trigger of rule 3 fires
MemeTrigger(chars, total, maxa, maxw, w, h) ==
    \/ 100 * maxa >= 10 * w * h
    \/ 100 * maxw >= 70 * w
    \/ 100 * total >= 20 * w * h
    \/ chars >= 25

\* both overlay ceilings of rule 4 are respected
OverlayCeilings(total, maxa, w, h) ==
    100 * total <= 8 * w * h /\ 100 * maxa <= 4 * w * h

DecisionList(nonempty, chars, total, maxa, maxw, w, h) ==
    IF ~nonempty THEN "none"
    ELSE IF chars < 3 THEN "none"
    ELSE IF MemeTrigger(chars, total, maxa, maxw, w, h) THEN "meme"
    ELSE IF OverlayCeilings(total, maxa, w, h) THEN "overlay"
    ELSE "meme"

\* the aggregates of the detections the call was given
Chars    == AggChars(results)
Total    == AggArea(results, Regions(results))
MaxArea  == AggMaxArea(results, Regions(results))
MaxWidth == AggMaxWidth(results, Regions(results))
ImgArea  == img_w * img_h
Returned == cpc = "returned"

C2_MemeDominance_AsStated ==
    (Returned /\ Len(results) = 1 /\ 100 * MaxArea >= 10 * ImgArea) =>
        text_type = "meme"

(***************************************************************************)
(* C2  (amended) A single detection whose bounding box covers at least     *)
(* 0.10 of the image area yields meme when its text has at least 3         *)
(* characters, and none when it has fewer.                                 *)
(***************************************************************************)
C2_MemeDominance ==
    (Returned /\ Len(results) = 1 /\ 100 * MaxArea >= 10 * ImgArea) =>
        /\ Chars >= 3 => text_type = "meme"
        /\ Chars < 3  => text_type = "none"

\* one region of exactly a tenth of the image, three characters: meme
C2_Witness ==
    /\ Returned
    /\ Len(results) = 1
    /\ 100 * MaxArea = 10 * ImgArea
    /\ Chars = 3
    /\ text_type = "meme"

(***************************************************************************)
(* C3  For any non-empty list of detections whose combined text length is  *)
(* below 3 the verdict is none, whatever the geometry.                     *)
(***************************************************************************)
C3_CharFloor ==
    (Returned /\ results # <<>> /\ Chars < 3) => text_type = "none"

\* two characters in all, one region covering the whole image
C3_Witness ==
    /\ Returned
    /\ Chars = 2
    /\ MaxArea = ImgArea
    /\ MaxWidth = img_w
    /\ text_type = "none"

C5_OverlayImplies ==
    (Returned /\ text_type = "overlay") =>
        /\ 3 <= Chars /\ Chars < 25
        /\ 100 * Total <= 8 * ImgArea
        /\ 100 * MaxArea <= 4 * ImgArea
        /\ 100 * MaxWidth < 70 * img_w

C5_Overlay_AsStated ==
    /\ C5_OverlayImplies
    /\ (/\ Returned
        /\ OverlayCeilings(Total, MaxArea, img_w, img_h)
        /\ MemeTrigger(Chars, Total, MaxArea, MaxWidth, img_w, img_h)) =>
            text_type = "meme"

(***************************************************************************)
(* C5  (amended) Whenever the verdict is overlay, 3 <= total_chars < 25,   *)
(* total_area_ratio <= 0.08, max_region_area_ratio <= 0.04 and             *)
(* max_region_width_ratio < 0.70; an input that satisfies both overlay     *)
(* ceilings but also any meme trigger yields meme when total_chars >= 3    *)
(* and none when total_chars < 3, never overlay.                           *)
(***************************************************************************)
C5_Overlay ==
    /\ C5_OverlayImplies
    /\ (/\ Returned
        /\ OverlayCeilings(Total, MaxArea, img_w, img_h)
        /\ MemeTrigger(Chars, Total, MaxArea, MaxWidth, img_w, img_h)) =>
            text_type = IF Chars >= 3 THEN "meme" ELSE "none"

\* both overlay ceilings met, 25 characters: meme
C5_Witness ==
    /\ Returned
    /\ OverlayCeilings(Total, MaxArea, img_w, img_h)
    /\ Total > 0
    /\ 100 * MaxWidth < 70 * img_w
    /\ Chars = 25
    /\ text_type = "meme"

(***************************************************************************)
(* C6  A detection whose bounding box has non-positive area adds its text  *)
(* length to total_chars, adds nothing to total_text_area and raises       *)
(* neither maximum; it causes no error, and the verdict is that of the     *)
(* same input with the detection's region removed and its characters kept. *)
(***************************************************************************)
Without(res, i) == [j \in 1..(Len(res) - 1) |-> IF j < i THEN res[j] ELSE res[j + 1]]

C6_Degenerate ==
    Returned =>
        \A i \in Degenerate(results) :
            LET rest == Without(results, i)
            IN  /\ total_chars(results) = total_chars(rest) + Len(results[i].text)
                /\ RegionLoop(LoopInit, results, img_w, img_h)
                       = RegionLoop(LoopInit, rest, img_w, img_h)
                /\ text_type \in {"none", "overlay", "meme"}
                /\ text_type = DecisionList(TRUE, AggChars(results),
                                   AggArea(rest, Regions(rest)),
                                   AggMaxArea(rest, Regions(rest)),
                                   AggMaxWidth(rest, Regions(rest)),
                                   img_w, img_h)

\* a collinear detection 0.8 of the width wide, with the characters that
\* lift the input over the floor, beside a small region: overlay
C6_Witness ==
    /\ Returned
    /\ \E i \in Degenerate(results) :
          /\ 100 * RegionWidth(results, i) >= 70 * img_w
          /\ AggChars(Without(results, i)) < 3
    /\ Regions(results) # {}
    /\ text_type = "overlay"

(***************************************************************************)
(* Property side of the drivers.                                           *)
(***************************************************************************)
\* the file opens and decodes
Loads(c) == Opens(c) /\ Decodes(c)

\* the verdict the decision list gives for the detections of a file
VerdictOf(c) ==
    LET res == readtext(c)
    IN  DecisionList(res # <<>>, AggChars(res), AggArea(res, Regions(res)),
                     AggMaxArea(res, Regions(res)), AggMaxWidth(res, Regions(res)),
                     shape(c)[1], shape(c)[2])

\* the file the last completed iteration was about
last_path == all_paths[n_done]

(***************************************************************************)
(* C7  Three-way routing: an iteration over an image that loads leaves a   *)
(* file of its name in the kept directory when the verdict is none or      *)
(* overlay and in the rejected directory when it is meme, and writes       *)
(* nothing to the other directory.                                         *)
(***************************************************************************)
C7_Routing ==
    [][(/\ policy = "three_way"
        /\ pc = "loop"
        /\ n_done < Len(all_paths)
        /\ Loads(all_paths[n_done + 1].content)) =>
            LET f == all_paths[n_done + 1]
                v == VerdictOf(f.content)
            IN  /\ v \in {"none", "overlay", "meme"}
                /\ v \in {"none", "overlay"} =>
                       /\ DST_DIR'[f.name] # Absent
                       /\ REJECTED_DIR' = REJECTED_DIR
                /\ v = "meme" =>
                       /\ REJECTED_DIR'[f.name] # Absent
                       /\ DST_DIR' = DST_DIR]_vars

\* an overlay image has been kept and a meme image rejected, each present
\* in its own directory only
C7_Witness ==
    /\ policy = "three_way"
    /\ n_done = 2
    /\ VerdictOf(all_paths[1].content) = "overlay"
    /\ Loads(all_paths[1].content)
    /\ VerdictOf(all_paths[2].content) = "meme"
    /\ Loads(all_paths[2].content)
    /\ DST_DIR[all_paths[1].name] = all_paths[1].content
    /\ REJECTED_DIR[all_paths[1].name] = Absent
    /\ REJECTED_DIR[all_paths[2].name] = all_paths[2].content
    /\ DST_DIR[all_paths[2].name] = Absent

(***************************************************************************)
(* C8  One bad file never aborts a batch run: a failure to load or decode  *)
(* an image, at any stage, is never propagated as a fatal error.           *)
(***************************************************************************)
C8_NeverAborts == pc # "aborted"

C10_NoOverwrite ==
    [][\A n \in Names :
          /\ DST_DIR[n] # Absent => DST_DIR'[n] = DST_DIR[n]
          /\ REJECTED_DIR[n] # Absent => REJECTED_DIR'[n] = REJECTED_DIR[n]]_vars

\* the image just routed to the kept directory found a different file of
\* its name there, which is still in place
C10_Witness ==
    /\ n_done >= 2
    /\ run = 1
    /\ Loads(last_path.content)
    /\ \/ policy = "three_way" /\ VerdictOf(last_path.content) \in {"none", "overlay"}
       \/ policy = "two_way" /\ ~has_text_easyocr(readtext(last_path.content))
    /\ DST_DIR[last_path.name] \notin {Absent, last_path.content}

(***************************************************************************)
(* C11  Idempotent reprocessing: a second run over the unchanged source    *)
(* directory ends with the kept and rejected counts the first run ended    *)
(* with, and at no point of it do the kept and rejected directories differ *)
(* from what they were when it started (no file added, none changed).      *)
(***************************************************************************)
RunEnded == pc \in {"done", "aborted"}

C11_Idempotent ==
    run >= 2 =>
        /\ DST_DIR = prev_run.DST
        /\ REJECTED_DIR = prev_run.REJ
        /\ RunEnded => (num_kept = prev_run.kept /\ num_rejected = prev_run.rejected)

\* a second run has finished over a source tree holding two files of one
\* name; it kept and rejected at least one image and copied nothing
C11_Witness ==
    /\ run = 2
    /\ pc = "done"
    /\ num_kept >= 1
    /\ num_rejected >= 1
    /\ \E j, k \in DOMAIN all_paths :
          /\ j < k
          /\ all_paths[j].name = all_paths[k].name
          /\ all_paths[j].content # all_paths[k].content
    /\ num_kept = prev_run.kept
    /\ DST_DIR = prev_run.DST
    /\ DST_DIR # EmptyDir

(***************************************************************************)
(* C12  Invalid configuration fails fast: on an image with a zero          *)
(* dimension the classifier signals a failure and returns no verdict       *)
(* (none, overlay or meme), for every detection list, the empty one and    *)
(* those below the character floor included.                               *)
(***************************************************************************)
C12_FailsFast ==
    (Returned /\ (img_w = 0 \/ img_h = 0)) =>
        text_type \notin {"none", "overlay", "meme"}

(***************************************************************************)
(* C13  Two-way variant: has_text_easyocr returns true exactly when the    *)
(* sum of len(text) over all detections is at least 3, whatever the        *)
(* regions and confidences; the two-way driver copies an image to the kept *)
(* directory only when the result is false (no text), and counts an image  *)
(* with text as rejected without copying it.                               *)
(***************************************************************************)
TextPresent(c) == AggChars(readtext(c)) >= 3

C13_TwoWay ==
    [][/\ cpc' = "returned2" => has_text' = (AggChars(results') >= 3)
       /\ policy = "two_way" =>
            /\ DST_DIR' # DST_DIR =>
                 /\ pc = "loop" /\ n_done < Len(all_paths)
                 /\ Loads(all_paths[n_done + 1].content)
                 /\ ~TextPresent(all_paths[n_done + 1].content)
                 /\ DST_DIR' = [DST_DIR EXCEPT ![all_paths[n_done + 1].name] =
                                                  all_paths[n_done + 1].content]
                 /\ num_kept' = num_kept + 1
            /\ (/\ pc = "loop" /\ n_done < Len(all_paths)
                /\ Loads(all_paths[n_done + 1].content)
                /\ TextPresent(all_paths[n_done + 1].content)) =>
                 /\ DST_DIR' = DST_DIR
                 /\ num_rejected' = num_rejected + 1
                 /\ num_kept' = num_kept]_vars

\* three characters in all, in collinear regions of low confidence only:
\* text is reported
C13_Witness ==
    /\ cpc = "returned2"
    /\ has_text = TRUE
    /\ AggChars(results) = 3
    /\ Len(results) = 3
    /\ \A k \in DOMAIN results :
          results[k].conf < 50 /\ RegionArea(results, k) = 0

(***************************************************************************)
(* C14  Tally invariant of both triage loops: num_kept + num_rejected is   *)
(* the number of candidate images processed so far; processing an image    *)
(* increments exactly one of the two counters by one, copy or no copy, and *)
(* nothing else changes them within a run; at normal completion the sum is *)
(* the number of candidate images found; the number of files the run has   *)
(* added to the kept directory is at most num_kept.                        *)
(***************************************************************************)
AddedToKept ==
    Cardinality({n \in Names : DST_DIR[n] # Absent /\ prev_run.DST[n] = Absent})

C14_TallyState ==
    /\ num_kept + num_rejected = n_done
    /\ pc = "done" => num_kept + num_rejected = Len(all_paths)
    /\ AddedToKept <= num_kept

C14_TallyStep ==
    /\ n_done' = n_done + 1 =>
          \/ num_kept' = num_kept + 1 /\ num_rejected' = num_rejected
          \/ num_kept' = num_kept /\ num_rejected' = num_rejected + 1
    /\ (n_done' = n_done /\ run' = run) =>
          (num_kept' = num_kept /\ num_rejected' = num_rejected)

C14_Tally == []C14_TallyState /\ [][C14_TallyStep]_vars

\* a finished run that counted three images, two of them kept, and copied
\* only one file to the kept directory
C14_Witness ==
    /\ pc = "done"
    /\ run = 1
    /\ n_done = 3
    /\ num_kept = 2
    /\ num_rejected = 1
    /\ AddedToKept = 1

(***************************************************************************)
(* C15  Order independence: for fixed image dimensions the verdict is the  *)
(* same for every permutation of the list of detections and, within each   *)
(* detection, for every permutation of the points of its region.           *)
(***************************************************************************)
Permuted(seq, p) == [k \in DOMAIN seq |-> seq[p[k]]]

C15_OrderIndependent ==
    Returned =>
        /\ \A p \in Permutations(DOMAIN results) :
              classify_text_type(Permuted(results, p), img_w, img_h) = text_type
        /\ \A k \in DOMAIN results :
              \A q \in Permutations(DOMAIN results[k].bbox) :
                  classify_text_type(
                      [results EXCEPT ![k].bbox = Permuted(@, q)],
                      img_w, img_h) = text_type

\* an overlay verdict for three detections, two of them rotated and one
\* collinear: their six orders and the orders of their points give the
\* same verdict
C15_Witness ==
    /\ Returned
    /\ Len(results) = 3
    /\ results[1].bbox = QuadLine
    /\ results[2].bbox = QuadDiamond
    /\ results[3].bbox = QuadDiamond
    /\ results[1].text # results[2].text
    /\ results[2].text # results[3].text
    /\ text_type = "overlay"
====
